---- MODULE Spec2Model ----
(***************************************************************************)
(* Model of src/q2.py: the line / tetrahedron intersection query.          *)
(*                                                                         *)
(* Numbers.  The program computes on floats.  The model computes on exact  *)
(* reals: every input coordinate is a small integer, so every sum, product *)
(* and quotient is a rational [n, d] (d > 0, lowest terms) and every       *)
(* square root is a surd [n, d, r, s] standing for (n/d) * sqrt(r/s).      *)
(* A Vector3 is [x, y, z, w] standing for (x/w, y/w, z/w).                 *)
(* A float division by zero raises ZeroDivisionError in Python; the model  *)
(* returns the record Fault for it and every caller propagates it.         *)
(***************************************************************************)
EXTENDS Integers, Sequences, FiniteSets, TLC

VARIABLES line, pyramid, pc, fs, i, trace, result

vars == <<line, pyramid, pc, fs, i, trace, result>>

(* ------------------------------ bounds -------------------------------- *)

\* Number of grid points (a prefix of GridPoints) the inputs are drawn from.
NumPoints == 5

\* Resolution of the square-root bracket used to compare a sum of surds of
\* different radicands with a rational (see SumMinusOneLessEps).
SqrtScale == 1000

(* ---------------------------- exact numbers --------------------------- *)

Abs(a) == IF a < 0 THEN -a ELSE a

RECURSIVE Gcd(_, _)
Gcd(a, b) == IF b = 0 THEN a ELSE Gcd(b, a % b)

\* The rational n/d (d # 0) in lowest terms with a positive denominator.
Rat(n, d) ==
    LET g == Gcd(Abs(n), Abs(d))
        sg == IF d < 0 THEN -1 ELSE 1
    IN  [n |-> (sg * n) \div g, d |-> (sg * d) \div g]

Fault == [err |-> "ZeroDivisionError"]
IsFault(v) == "err" \in DOMAIN v

None == [none |-> TRUE]
IsNone(v) == "none" \in DOMAIN v

RatAdd(a, b) == Rat(a.n * b.d + b.n * a.d, a.d * b.d)
RatSub(a, b) == Rat(a.n * b.d - b.n * a.d, a.d * b.d)
RatAbs(a) == [n |-> Abs(a.n), d |-> a.d]
\* float / float: ZeroDivisionError on a zero divisor.
RatDiv(a, b) == IF b.n = 0 THEN Fault ELSE Rat(a.n * b.d, a.d * b.n)

\* floor(sqrt(k)) for k >= 0, by bisection on lo <= sqrt(k) < hi.
RECURSIVE IsqrtIn(_, _, _)
IsqrtIn(k, lo, hi) ==
    IF hi - lo <= 1 THEN lo
    ELSE LET mid == (lo + hi) \div 2
         IN  IF mid * mid <= k THEN IsqrtIn(k, mid, hi) ELSE IsqrtIn(k, lo, mid)

Isqrt(k) == IsqrtIn(k, 0, 46341)

\* The surd (n/d) * sqrt(r/s), n >= 0, in lowest terms; a rational has r = s = 1.
Surd(n, d, r, s) ==
    IF n = 0 THEN [n |-> 0, d |-> 1, r |-> 1, s |-> 1]
    ELSE LET g == Gcd(n, d)
             h == Gcd(r, s)
         IN  [n |-> n \div g, d |-> d \div g, r |-> r \div h, s |-> s \div h]

SurdIsRational(a) == a.r = 1 /\ a.s = 1
SurdDivInt(a, k) == Surd(a.n, a.d * k, a.r, a.s)
SurdMulInt(k, a) == Surd(k * a.n, a.d, a.r, a.s)
SurdDiv(a, b) ==
    IF b.n = 0 THEN Fault
    ELSE Surd(a.n * b.d, a.d * b.n, a.r * b.s, a.s * b.r)

\* 0 <= a <= 1 for a surd a: a is never negative, and a <= 1 iff a^2 <= 1.
SurdInUnit(a) == 0 <= a.n /\ a.n * a.n * a.r <= a.d * a.d * a.s

\* Integer bounds SurdLo(a) <= SqrtScale * a < SurdHi(a) of a surd a.
SurdLo(a) ==
    (a.n * Isqrt((a.r * SqrtScale * SqrtScale) \div a.s)) \div a.d
SurdHi(a) ==
    (a.n * (Isqrt((a.r * SqrtScale * SqrtScale) \div a.s) + 1) + a.d - 1) \div a.d

(* ------------------------------ EPSILON ------------------------------- *)

EPSILON == [n |-> 1, d |-> 100000]

One == [n |-> 1, d |-> 1]

\* a < EPSILON for a rational a: a.n * EPSILON.d < a.d * EPSILON.n, written
\* with a quotient so that the product stays in range.
LessThanEpsilon(a) == a.n <= (a.d * EPSILON.n - 1) \div EPSILON.d

\* s1 + s2 + s3 - 1 < EPSILON.  Exact when the three surds are rational (the
\* point lies in the triangle's plane); otherwise decided from the bracket of
\* each square root, "Undecided" when the bracket straddles 1 + EPSILON.
SumMinusOneLessEps(s1, s2, s3) ==
    IF SurdIsRational(s1) /\ SurdIsRational(s2) /\ SurdIsRational(s3)
    THEN LET sum == RatAdd(RatAdd(Rat(s1.n, s1.d), Rat(s2.n, s2.d)), Rat(s3.n, s3.d))
         IN  IF LessThanEpsilon(RatSub(sum, One)) THEN "True" ELSE "False"
    ELSE LET lo == SurdLo(s1) + SurdLo(s2) + SurdLo(s3) - SqrtScale
             hi == SurdHi(s1) + SurdHi(s2) + SurdHi(s3) - SqrtScale
         IN  IF lo * EPSILON.d >= SqrtScale * EPSILON.n THEN "False"
             ELSE IF hi * EPSILON.d <= SqrtScale * EPSILON.n THEN "True"
             ELSE "Undecided"

(* ------------------------------ Vector3 ------------------------------- *)

Vector3(x, y, z) == [x |-> x, y |-> y, z |-> z, w |-> 1]

\* (x/w, y/w, z/w) with the common denominator in lowest terms.
VecNorm(x, y, z, w) ==
    LET g == Gcd(Gcd(Abs(x), Abs(y)), Gcd(Abs(z), w))
    IN  [x |-> x \div g, y |-> y \div g, z |-> z \div g, w |-> w \div g]

cross_product(a, b) ==
    [x |-> a.y * b.z - a.z * b.y,
     y |-> a.z * b.x - a.x * b.z,
     z |-> a.x * b.y - a.y * b.x,
     w |-> a.w * b.w]

dot_product(a, b) == Rat(a.x * b.x + a.y * b.y + a.z * b.z, a.w * b.w)

Vector3Sub(a, b) ==
    [x |-> a.x * b.w - b.x * a.w,
     y |-> a.y * b.w - b.y * a.w,
     z |-> a.z * b.w - b.z * a.w,
     w |-> a.w * b.w]

Vector3Add(a, b) ==
    VecNorm(a.x * b.w + b.x * a.w, a.y * b.w + b.y * a.w,
            a.z * b.w + b.z * a.w, a.w * b.w)

\* Vector3 * float
Vector3Mul(a, k) == VecNorm(a.x * k.n, a.y * k.n, a.z * k.n, a.w * k.d)

\* magnitude without the square root: x^2 + y^2 + z^2.
magnitude_NoSqrt(a) ==
    Surd(a.x * a.x + a.y * a.y + a.z * a.z, a.w * a.w, 1, 1)

\* sqrt(x^2 + y^2 + z^2): with g the gcd of the numerators, (g/w) * sqrt(r),
\* r the squared length of the primitive vector.
magnitude(a) ==
    LET g == Gcd(Gcd(Abs(a.x), Abs(a.y)), Abs(a.z))
    IN  IF g = 0 THEN Surd(0, 1, 1, 1)
        ELSE Surd(g, a.w,
                  (a.x \div g) * (a.x \div g) + (a.y \div g) * (a.y \div g)
                    + (a.z \div g) * (a.z \div g), 1)

(* --------------------------- Line, Plane, Pyramid --------------------- *)

Line(point, direction) == [point1 |-> point, direction |-> direction]

direction_vector(l) == l.direction

Plane(vertices) ==
    [vertices |-> vertices,
     normal_v |-> cross_product(Vector3Sub(vertices[2], vertices[1]),
                                Vector3Sub(vertices[3], vertices[1]))]

normal_vector(plane) == plane.normal_v

Pyramid(vertices) == [vertices |-> vertices]

\* Size of a face: combinations(self.vertices, 3).
FaceSize == 3

\* combinations that yields the subsequences without the head first.
RECURSIVE combinations_TailFirst(_, _)
combinations_TailFirst(s, r) ==
    IF r = 0 THEN << <<>> >>
    ELSE IF Len(s) < r THEN << >>
    ELSE LET with == combinations_TailFirst(Tail(s), r - 1)
         IN  combinations_TailFirst(Tail(s), r)
               \o [k \in 1..Len(with) |-> <<Head(s)>> \o with[k]]

\* itertools.combinations(s, r): the r-length subsequences of s, in
\* lexicographic order of the positions they take.
RECURSIVE combinations(_, _)
combinations(s, r) ==
    IF r = 0 THEN << <<>> >>
    ELSE IF Len(s) < r THEN << >>
    ELSE LET with == combinations(Tail(s), r - 1)
         IN  [k \in 1..Len(with) |-> <<Head(s)>> \o with[k]]
               \o combinations(Tail(s), r)

faces(p) ==
    LET c == combinations(p.vertices, FaceSize)
    IN  [k \in 1..Len(c) |-> Plane(<<c[k][1], c[k][2], c[k][3]>>)]

(* ------------------------- the three functions ------------------------ *)

(* Variants of line_plane_intersection_point with one plausible slip each.  *)

\* The second early return is missing.
lpip_NoContainedCheck(l, plane) ==
    LET dn == dot_product(direction_vector(l), normal_vector(plane))
        pn == dot_product(Vector3Sub(plane.vertices[1], l.point1),
                          normal_vector(plane))
    IN  IF LessThanEpsilon(RatAbs(dn)) THEN None
        ELSE LET d == RatDiv(pn, dn)
             IN  IF IsFault(d) THEN Fault
                 ELSE Vector3Add(l.point1, Vector3Mul(direction_vector(l), d))

\* The first early return is missing.
lpip_NoParallelCheck(l, plane) ==
    LET dn == dot_product(direction_vector(l), normal_vector(plane))
        pn == dot_product(Vector3Sub(plane.vertices[1], l.point1),
                          normal_vector(plane))
    IN  IF LessThanEpsilon(RatAbs(pn)) THEN None
        ELSE LET d == RatDiv(pn, dn)
             IN  IF IsFault(d) THEN Fault
                 ELSE Vector3Add(l.point1, Vector3Mul(direction_vector(l), d))

\* Both early returns are missing.
lpip_Unchecked(l, plane) ==
    LET dn == dot_product(direction_vector(l), normal_vector(plane))
        pn == dot_product(Vector3Sub(plane.vertices[1], l.point1),
                          normal_vector(plane))
        d == RatDiv(pn, dn)
    IN  IF IsFault(d) THEN Fault
        ELSE Vector3Add(l.point1, Vector3Mul(direction_vector(l), d))

\* The line is taken for a ray: a solution behind the origin is dropped.
lpip_Ray(l, plane) ==
    LET dn == dot_product(direction_vector(l), normal_vector(plane))
        pn == dot_product(Vector3Sub(plane.vertices[1], l.point1),
                          normal_vector(plane))
    IN  IF LessThanEpsilon(RatAbs(dn)) THEN None
        ELSE IF LessThanEpsilon(RatAbs(pn)) THEN None
        ELSE LET d == RatDiv(pn, dn)
             IN  IF IsFault(d) THEN Fault
                 ELSE IF d.n < 0 THEN None
                 ELSE Vector3Add(l.point1, Vector3Mul(direction_vector(l), d))

line_plane_intersection_point(l, plane) ==
    LET dn == dot_product(direction_vector(l), normal_vector(plane))
        pn == dot_product(Vector3Sub(plane.vertices[1], l.point1),
                          normal_vector(plane))
    IN  IF LessThanEpsilon(RatAbs(dn)) THEN None
        ELSE IF LessThanEpsilon(RatAbs(pn)) THEN None
        ELSE LET d == RatDiv(pn, dn)
             IN  IF IsFault(d) THEN Fault
                 ELSE Vector3Add(l.point1, Vector3Mul(direction_vector(l), d))

\* sub_triangles with sub_triangle_3 computed from the vertices of
\* sub_triangle_2.
sub_triangles_CopyPaste(point, triangle) ==
    LET v == triangle.vertices
        triangle_area ==
            SurdDivInt(magnitude(cross_product(Vector3Sub(v[2], v[1]),
                                               Vector3Sub(v[3], v[1]))), 2)
        sub_triangle_1 ==
            SurdDiv(magnitude(cross_product(Vector3Sub(point, v[2]),
                                            Vector3Sub(point, v[3]))),
                    SurdMulInt(2, triangle_area))
        sub_triangle_2 ==
            SurdDiv(magnitude(cross_product(Vector3Sub(point, v[3]),
                                            Vector3Sub(point, v[1]))),
                    SurdMulInt(2, triangle_area))
    IN  IF IsFault(sub_triangle_1) \/ IsFault(sub_triangle_2)
        THEN Fault
        ELSE [s1 |-> sub_triangle_1, s2 |-> sub_triangle_2, s3 |-> sub_triangle_2]

\* triangle_area and the three area ratios sub_triangle_1..3 of
\* point_in_triangle, or Fault when the division by 2 * triangle_area raises.
sub_triangles(point, triangle) ==
    LET v == triangle.vertices
        triangle_area ==
            SurdDivInt(magnitude(cross_product(Vector3Sub(v[2], v[1]),
                                               Vector3Sub(v[3], v[1]))), 2)
        sub_triangle_1 ==
            SurdDiv(magnitude(cross_product(Vector3Sub(point, v[2]),
                                            Vector3Sub(point, v[3]))),
                    SurdMulInt(2, triangle_area))
        sub_triangle_2 ==
            SurdDiv(magnitude(cross_product(Vector3Sub(point, v[3]),
                                            Vector3Sub(point, v[1]))),
                    SurdMulInt(2, triangle_area))
        sub_triangle_3 ==
            SurdDiv(magnitude(cross_product(Vector3Sub(point, v[1]),
                                            Vector3Sub(point, v[2]))),
                    SurdMulInt(2, triangle_area))
    IN  IF IsFault(sub_triangle_1) \/ IsFault(sub_triangle_2) \/ IsFault(sub_triangle_3)
        THEN Fault
        ELSE [s1 |-> sub_triangle_1, s2 |-> sub_triangle_2, s3 |-> sub_triangle_3]

point_in_triangle(point, triangle) ==
    LET a == sub_triangles(point, triangle)
    IN  IF IsFault(a) THEN "ZeroDivisionError"
        ELSE IF ~(SurdInUnit(a.s1) /\ SurdInUnit(a.s2) /\ SurdInUnit(a.s3))
        THEN "False"
        ELSE SumMinusOneLessEps(a.s1, a.s2, a.s3)

\* The body of the loop for one face: "continue" when there is no
\* intersection point, otherwise what point_in_triangle says of it.
FaceOutcome(l, face) ==
    LET intersection_point == line_plane_intersection_point(l, face)
    IN  IF IsNone(intersection_point) THEN "continue"
        ELSE IF IsFault(intersection_point) THEN "ZeroDivisionError"
        ELSE point_in_triangle(intersection_point, face)

\* The whole query as a function of its inputs.
line_intersection_with_pyramid(l, p) ==
    LET f == faces(p)
        RECURSIVE Loop(_)
        Loop(k) ==
            IF k > Len(f) THEN "False"
            ELSE LET o == FaceOutcome(l, f[k])
                 IN  IF o \in {"continue", "False"} THEN Loop(k + 1) ELSE o
    IN  Loop(1)

(* ------------------------------- inputs ------------------------------- *)

GridPoints ==
    << <<0, 0, 0>>, <<1, 0, 0>>, <<0, 1, 0>>, <<0, 0, 1>>,
       <<0, 0, -1>>, <<1, 1, 1>>, <<1, 1, 0>>, <<2, 0, 0>> >>

Points ==
    {Vector3(GridPoints[k][1], GridPoints[k][2], GridPoints[k][3]) :
        k \in {j \in 1..Len(GridPoints) : j <= NumPoints}}

\* The directions from one grid point to another one.
Directions == {Vector3Sub(p, q) : p \in Points, q \in Points} \
                 {Vector3Sub(q, q) : q \in Points}

\* Every line from a grid point along one of these directions.
Lines == {Line(q, v) : q \in Points, v \in Directions}

\* Every ordered choice of four distinct grid points; three of them may be
\* collinear and the four may be coplanar.
Pyramids ==
    {Pyramid(t) : t \in {u \in Points \X Points \X Points \X Points :
                            Cardinality({u[1], u[2], u[3], u[4]}) = 4}}

\* The two calls of the program's __main__.
ScenarioLine == Line(Vector3(0, 0, 0), Vector3(1, 1, 1))

PyramidA ==
    Pyramid(<<Vector3(0, 0, 0), Vector3(1, 0, 0), Vector3(0, 1, 0), Vector3(1, 1, 1)>>)

PyramidB ==
    Pyramid(<<Vector3(0, 0, 0), Vector3(1, 0, 0), Vector3(0, 1, 0), Vector3(0, 0, -1)>>)

Inputs ==
    (Lines \X Pyramids) \cup {<<ScenarioLine, PyramidA>>, <<ScenarioLine, PyramidB>>}

(* ---------------------------- state machine --------------------------- *)

Init ==
    /\ \E inp \in Inputs : line = inp[1] /\ pyramid = inp[2]
    /\ pc = "start"
    /\ fs = << >>
    /\ i = 0
    /\ trace = << >>
    /\ result = "unset"

\* for face in pyramid.faces():
Enter ==
    /\ pc = "start"
    /\ pc' = "loop"
    /\ fs' = faces(pyramid)
    /\ i' = 1
    /\ UNCHANGED <<line, pyramid, trace, result>>

\* Continue that leaves the loop: "return False" for "continue".
Continue_Returns ==
    /\ pc = "loop"
    /\ i <= Len(fs)
    /\ FaceOutcome(line, fs[i]) = "continue"
    /\ pc' = "done"
    /\ result' = "False"
    /\ trace' = Append(trace, "continue")
    /\ UNCHANGED <<line, pyramid, fs, i>>

\* if intersection_point is None: continue
Continue ==
    /\ pc = "loop"
    /\ i <= Len(fs)
    /\ FaceOutcome(line, fs[i]) = "continue"
    /\ i' = i + 1
    /\ trace' = Append(trace, "continue")
    /\ UNCHANGED <<line, pyramid, pc, fs, result>>

\* if point_in_triangle(intersection_point, face): return True
TestFace ==
    /\ pc = "loop"
    /\ i <= Len(fs)
    /\ FaceOutcome(line, fs[i]) # "continue"
    /\ LET o == FaceOutcome(line, fs[i])
       IN  /\ trace' = Append(trace, o)
           /\ IF o = "False"
              THEN i' = i + 1 /\ UNCHANGED <<pc, result>>
              ELSE i' = i /\ pc' = "done" /\ result' = o
    /\ UNCHANGED <<line, pyramid, fs>>

\* return False
ReturnFalse ==
    /\ pc = "loop"
    /\ i > Len(fs)
    /\ pc' = "done"
    /\ result' = "False"
    /\ UNCHANGED <<line, pyramid, fs, i, trace>>

\* A direct call point_in_triangle(line.point1, pyramid.faces()[0]).
CallPointInTriangle ==
    /\ pc = "start"
    /\ pc' = "pit_done"
    /\ fs' = faces(pyramid)
    /\ result' = point_in_triangle(line.point1, faces(pyramid)[1])
    /\ UNCHANGED <<line, pyramid, i, trace>>

Next ==
    \/ Enter
    \/ Continue
    \/ TestFace
    \/ ReturnFalse
    \/ CallPointInTriangle

Spec == Init /\ [][Next]_vars

(* ------------------- geometry used to state the claims ---------------- *)
(* Stated on the integer numerators of the vectors, independently of the   *)
(* operators above.                                                        *)

RefDiff(a, b) ==
    [x |-> a.x * b.w - b.x * a.w, y |-> a.y * b.w - b.y * a.w,
     z |-> a.z * b.w - b.z * a.w, w |-> a.w * b.w]

RefCross(a, b) ==
    [x |-> a.y * b.z - a.z * b.y, y |-> a.z * b.x - a.x * b.z,
     z |-> a.x * b.y - a.y * b.x, w |-> a.w * b.w]

\* The sign of a . b (the denominators are positive).
RefDot(a, b) == a.x * b.x + a.y * b.y + a.z * b.z

IsZeroVec(a) == a.x = 0 /\ a.y = 0 /\ a.z = 0

RefNormal(v) == RefCross(RefDiff(v[2], v[1]), RefDiff(v[3], v[1]))

Collinear(v) == IsZeroVec(RefNormal(v))

IndexTriples == << <<1, 2, 3>>, <<1, 2, 4>>, <<1, 3, 4>>, <<2, 3, 4>> >>

FaceVertices(p, k) ==
    <<p.vertices[IndexTriples[k][1]], p.vertices[IndexTriples[k][2]],
      p.vertices[IndexTriples[k][3]]>>

\* The four vertices are affinely independent.
NonDegenerate(p) ==
    RefDot(RefNormal(FaceVertices(p, 1)),
           RefDiff(p.vertices[4], p.vertices[1])) # 0

HasDegenerateFace(p) == \E k \in 1..4 : Collinear(FaceVertices(p, k))

\* The line l passes through the point v.
PassesThrough(l, v) == IsZeroVec(RefCross(RefDiff(v, l.point1), l.direction))

\* The direction of l is orthogonal to the normal of the plane through v.
Parallel(l, v) == RefDot(l.direction, RefNormal(v)) = 0

OriginOnPlane(l, v) == RefDot(RefDiff(v[1], l.point1), RefNormal(v)) = 0

\* The parameter d of the crossing point is negative.
BehindOrigin(l, v) ==
    RefDot(RefDiff(v[1], l.point1), RefNormal(v)) * RefDot(l.direction, RefNormal(v)) < 0

\* q is the one point the line l and the plane through v have in common.
IsCrossingPoint(q, l, v) ==
    /\ ~IsNone(q) /\ ~IsFault(q)
    /\ RefDot(RefDiff(q, v[1]), RefNormal(v)) = 0
    /\ IsZeroVec(RefCross(RefDiff(q, l.point1), l.direction))

\* q lies in the closed triangle v: in its plane, with three non-negative
\* barycentric coordinates.
Inside(q, v) ==
    /\ RefDot(RefDiff(q, v[1]), RefNormal(v)) = 0
    /\ RefDot(RefCross(RefDiff(v[2], q), RefDiff(v[3], q)), RefNormal(v)) >= 0
    /\ RefDot(RefCross(RefDiff(v[3], q), RefDiff(v[1], q)), RefNormal(v)) >= 0
    /\ RefDot(RefCross(RefDiff(v[1], q), RefDiff(v[2], q)), RefNormal(v)) >= 0

Reverse(l) ==
    Line(l.point1, [x |-> -l.direction.x, y |-> -l.direction.y,
                    z |-> -l.direction.z, w |-> l.direction.w])

Perm4 == {f \in [1..4 -> 1..4] : \A a \in 1..4 : \A b \in 1..4 : f[a] = f[b] => a = b}

Permuted(p, f) == Pyramid([k \in 1..4 |-> p.vertices[f[k]]])

\* Lexicographic order of the grid points.
LexLess(a, b) ==
    \/ a.x < b.x
    \/ a.x = b.x /\ a.y < b.y
    \/ a.x = b.x /\ a.y = b.y /\ a.z < b.z

Sorted(p) == \A k \in 1..3 : LexLess(p.vertices[k], p.vertices[k + 1])

\* Face k of the pyramid is hit: an intersection point exists and lies in it.
Hit(k) ==
    LET q == line_plane_intersection_point(line, faces(pyramid)[k])
    IN  /\ ~IsNone(q)
        /\ point_in_triangle(q, faces(pyramid)[k]) = "True"

\* The one state of a run of the query in which the loop is about to start:
\* the claims about the inputs alone are evaluated there, once per input.
Entered == pc = "loop" /\ i = 1

(* -------------------------------- claims ------------------------------ *)

\* C1: for the line from (0,0,0) along (1,1,1) the query returns True on the
\* pyramid (0,0,0), (1,0,0), (0,1,0), (1,1,1) and False on the pyramid
\* (0,0,0), (1,0,0), (0,1,0), (0,0,-1).
C1_Scenarios ==
    (pc = "done" /\ line = ScenarioLine) =>
        /\ pyramid = PyramidA => result = "True"
        /\ pyramid = PyramidB => result = "False"

C1_Witness ==
    pc = "done" /\ line = ScenarioLine /\ pyramid = PyramidB /\ result = "False"

\* C2: for every non-degenerate pyramid, a line that passes through one of
\* its vertices makes the query return True, wherever the line's origin is.
C2_VertexLineHits ==
    (/\ pc = "done"
     /\ NonDegenerate(pyramid)
     /\ \E k \in 1..4 : PassesThrough(line, pyramid.vertices[k]))
        => result = "True"

\* C3 as stated: on a pyramid with a degenerate face the query ends in a
\* division by zero instead of returning a boolean.
C3_DegenerateFaceFaults ==
    (pc = "done" /\ HasDegenerateFace(pyramid)) => result = "ZeroDivisionError"

\* C3 as amended: a degenerate face is skipped by the solver (its normal is
\* zero), point_in_triangle is never reached for it and the query returns a
\* boolean; only a direct call of point_in_triangle on a degenerate triangle
\* divides by zero.
C3_DegenerateFaceSkipped ==
    /\ pc \in {"loop", "done"} =>
          \A k \in 1..Len(trace) :
              Collinear(fs[k].vertices) => trace[k] = "continue"
    /\ pc = "done" => result \in {"True", "False"}
    /\ (pc = "pit_done" /\ Collinear(fs[1].vertices)) => result = "ZeroDivisionError"

C3_Witness ==
    /\ pc = "done"
    /\ result \in {"True", "False"}
    /\ \E k \in 1..Len(trace) :
          /\ Collinear(fs[k].vertices)
          /\ Cardinality({fs[k].vertices[j] : j \in 1..3}) = 3
          /\ trace[k] = "continue"

\* C4: the query visits the faces in the order of faces(); it skips a face
\* without intersection point, tests the point on that same face otherwise,
\* returns True at the first accepted face without evaluating a later one,
\* and returns False only after all four faces; its result is the
\* disjunction of Hit over the four faces.
C4_LoopContract ==
    /\ pc \in {"loop", "done"} =>
          /\ fs = faces(pyramid)
          /\ Len(trace) <= 4
          /\ \A k \in 1..Len(trace) :
                trace[k] =
                    IF IsNone(line_plane_intersection_point(line, fs[k]))
                    THEN "continue"
                    ELSE point_in_triangle(
                             line_plane_intersection_point(line, fs[k]), fs[k])
    /\ pc = "loop" =>
          /\ i = Len(trace) + 1
          /\ \A k \in 1..Len(trace) : ~Hit(k)
    /\ pc = "done" =>
          /\ result \in {"True", "False"}
          /\ (result = "True") = (\E k \in 1..4 : Hit(k))
          /\ result = "True" =>
                /\ Hit(Len(trace))
                /\ \A k \in 1..(Len(trace) - 1) : ~Hit(k)
          /\ result = "False" => Len(trace) = 4

C4_Witness ==
    /\ pc = "done"
    /\ result = "True"
    /\ Len(trace) = 2
    /\ trace[1] = "False"
    /\ \E k \in 3..4 : Hit(k)

\* C5: for a non-degenerate pyramid the result of the query is the same for
\* every order of the four vertices.  Pyramids holds every order of each set
\* of vertices, so the orders are compared from the sorted one.
C5_VertexOrderIndependent ==
    (Entered /\ NonDegenerate(pyramid) /\ Sorted(pyramid)) =>
        \A f \in Perm4 :
            line_intersection_with_pyramid(line, Permuted(pyramid, f))
                = line_intersection_with_pyramid(line, pyramid)

\* A hit found at the last face only, which another order visits first.
C5_Witness ==
    /\ pc = "done"
    /\ NonDegenerate(pyramid)
    /\ Sorted(pyramid)
    /\ result = "True"
    /\ Len(trace) = 4

\* C6: the solver puts no restriction on the sign of d: it returns the
\* crossing point also when d < 0, and for the direction v and the direction
\* -v it returns the same outcome; so does the query.
C6_Bidirectional ==
    Entered =>
        /\ \A k \in 1..4 :
              /\ line_plane_intersection_point(Reverse(line), faces(pyramid)[k])
                    = line_plane_intersection_point(line, faces(pyramid)[k])
              /\ (/\ BehindOrigin(line, FaceVertices(pyramid, k)))
                    => IsCrossingPoint(
                           line_plane_intersection_point(line, faces(pyramid)[k]),
                           line, FaceVertices(pyramid, k))
        /\ line_intersection_with_pyramid(Reverse(line), pyramid)
              = line_intersection_with_pyramid(line, pyramid)

C6_Witness ==
    /\ pc = "done"
    /\ result = "True"
    /\ BehindOrigin(line, fs[Len(trace)].vertices)

\* C7: the solver returns None exactly when the line is parallel to the
\* plane or contained in it; a line that crosses the plane at one point gets
\* that point, also when its origin lies on the plane.
C7_NoneOnlyParallelOrContained ==
    (pc = "loop" /\ i <= Len(fs)) =>
        LET q == line_plane_intersection_point(line, fs[i])
        IN  /\ IsNone(q) <=> Parallel(line, fs[i].vertices)
            /\ ~Parallel(line, fs[i].vertices)
                  => IsCrossingPoint(q, line, fs[i].vertices)

\* What C8 says of one call point_in_triangle(q, triangle) = answer.
C8Case(q, triangle, answer) ==
    LET a == sub_triangles(q, triangle)
        rational == SurdIsRational(a.s1) /\ SurdIsRational(a.s2) /\ SurdIsRational(a.s3)
        sum == RatAdd(RatAdd(Rat(a.s1.n, a.s1.d), Rat(a.s2.n, a.s2.d)),
                      Rat(a.s3.n, a.s3.d))
        lo == SurdLo(a.s1) + SurdLo(a.s2) + SurdLo(a.s3) - SqrtScale
        hi == SurdHi(a.s1) + SurdHi(a.s2) + SurdHi(a.s3) - SqrtScale
        atLeastOne == IF rational THEN RatSub(sum, One).n >= 0 ELSE lo >= 0
        within ==
            IF rational THEN LessThanEpsilon(RatAbs(RatSub(sum, One)))
            ELSE hi * EPSILON.d <= SqrtScale * EPSILON.n
                    /\ lo * EPSILON.d > -(SqrtScale * EPSILON.n)
        inUnit == SurdInUnit(a.s1) /\ SurdInUnit(a.s2) /\ SurdInUnit(a.s3)
    IN  /\ ~IsFault(a)
        /\ answer \in {"True", "False"}
        /\ (answer = "True") = Inside(q, triangle.vertices)
        /\ atLeastOne
        /\ (answer = "True") = (inUnit /\ within)

\* C8: for a non-degenerate triangle point_in_triangle is True exactly for
\* the points of the closed triangle; the sum of the three ratios is never
\* below 1, so the one-sided test sum - 1 < EPSILON decides as the two-sided
\* test does.
C8_Membership ==
    /\ (pc = "pit_done" /\ ~Collinear(fs[1].vertices))
          => C8Case(line.point1, fs[1], result)
    /\ pc \in {"loop", "done"} =>
          \A k \in 1..Len(trace) :
              trace[k] # "continue" =>
                  C8Case(line_plane_intersection_point(line, fs[k]), fs[k], trace[k])

\* A point of the triangle's plane outside the triangle is rejected.
C8_Witness ==
    /\ pc = "pit_done"
    /\ ~Collinear(fs[1].vertices)
    /\ RefDot(RefDiff(line.point1, fs[1].vertices[1]), RefNormal(fs[1].vertices)) = 0
    /\ ~Inside(line.point1, fs[1].vertices)
    /\ result = "False"

\* C9: when the direction is orthogonal to the normal the solver returns
\* None, whatever the offset of the line: strictly parallel, lying in the
\* plane, or a zero normal; never a fault.
C9_ParallelIsNone ==
    Entered =>
        \A k \in 1..4 :
            Parallel(line, FaceVertices(pyramid, k))
                => IsNone(line_plane_intersection_point(line, faces(pyramid)[k]))

\* A strictly parallel line: off the plane, non-zero normal.
C9_Witness ==
    /\ pc = "loop"
    /\ i = 2
    /\ trace = <<"continue">>
    /\ Parallel(line, fs[1].vertices)
    /\ ~OriginOnPlane(line, fs[1].vertices)
    /\ ~Collinear(fs[1].vertices)

\* C10: faces() yields exactly 4 Planes, for the index sets {0,1,2}, {0,1,3},
\* {0,2,3}, {1,2,3} in this order, each with its vertices in increasing
\* index order; no index set comes twice.
C10_Faces ==
    pc # "start" =>
        /\ Len(fs) = 4
        /\ \A k \in 1..Len(fs) :
              /\ fs[k].vertices = FaceVertices(pyramid, k)
              /\ fs[k].normal_v = RefNormal(FaceVertices(pyramid, k))
        /\ Cardinality({pyramid.vertices[k] : k \in 1..4}) = 4
              => Cardinality({{fs[k].vertices[j] : j \in 1..3} : k \in 1..Len(fs)}) = 4

C10_Witness ==
    /\ pc = "loop"
    /\ Cardinality({pyramid.vertices[k] : k \in 1..4}) = 4
    /\ Len(fs) = 4
    /\ fs[4].vertices = <<pyramid.vertices[2], pyramid.vertices[3], pyramid.vertices[4]>>

====
